---- MODULE Spec2Model ----
(***************************************************************************)
(* node-ytsr: the pagination engine of lib/main.js (fetchSearchResults,    *)
(* fetchNextPage, continueRequest) over the helpers of lib/utils.js        *)
(* (checkArgs, parseBody, the page adapters).                              *)
(*                                                                         *)
(* One step of the model is the code that runs between two suspension      *)
(* points (await) of one call: issuing a request, or handling its          *)
(* response up to the next request or to the call's return / throw.        *)
(*                                                                         *)
(* The upstream is free: every GET and POST is answered, with any document *)
(* or page of the shapes below. A transport failure, which throws out of   *)
(* the call at the await, is not part of the model. Item limits and page   *)
(* counts are integers (or absent).                                        *)
(***************************************************************************)
EXTENDS Integers, Sequences, FiniteSets, TLC

\* ------------------------------------------------------------------ bounds
MaxPageLen == 2   \* raw items on one upstream page
MaxLimit == 3     \* largest explicit item limit a caller passes
MaxPages == 2     \* largest explicit finite page count a caller passes
MaxPosts == 3     \* the POST counter saturates here
MaxAlerts == 2    \* alerts in the payload of a document without contents
MaxNodes == 3     \* strings, arrays and objects in one embedded JSON value
MaxTextLen == 4   \* characters of a text handed to cutAfterJSON
MaxEntries == 3   \* entries of a first page's results container
MaxFilters == 2   \* filters in one filter group
MaxGets == 3      \* the counter of getFilters' GETs saturates here

\* ------------------------------------------------- JavaScript number slots
\* limit and pages hold JavaScript numbers; the non-integer values get codes
\* far outside the integers the model uses, and every comparison and
\* subtraction goes through the operators below.
Infinity == 1000000
NaN == 0 - 1000000
Undefined == 0 - 1000001
NullV == 0 - 1000002

DEFAULT_OPTIONS_limit == 100

\* ToNumber: undefined -> NaN, null -> 0
Num(x) == IF x = Undefined THEN NaN ELSE IF x = NullV THEN 0 ELSE x
\* isNaN(x), isFinite(x): both coerce with ToNumber first
isNaN(x) == Num(x) = NaN
isFinite(x) == Num(x) # NaN /\ Num(x) # Infinity
\* a < b, a > b, a <= b: false as soon as one side is NaN
Lt(a, b) == Num(a) # NaN /\ Num(b) # NaN /\ Num(a) < Num(b)
Gt(a, b) == Lt(b, a)
Le(a, b) == Num(a) # NaN /\ Num(b) # NaN /\ Num(a) <= Num(b)
\* a -= n for a small non-negative integer n
Minus(a, n) ==
  IF Num(a) = NaN THEN NaN
  ELSE IF Num(a) = Infinity THEN Infinity
  ELSE Num(a) - n

\* --------------------------------------------------------- JavaScript values
\* The values a caller can put into a continuation array. Every value is a
\* record of the same shape: t is the typeof-class, s a string payload
\* (the string itself, or the context's clientVersion), limit and pages the
\* two budget fields of an options object.
JsValue(t, s, l, p) == [t |-> t, s |-> s, limit |-> l, pages |-> p]
JsUndefined == JsValue("undefined", "", 0, 0)
JsNull == JsValue("null", "", 0, 0)
JsString(s) == JsValue("string", s, 0, 0)
JsNumber == JsValue("number", "7", 0, 0)
JsContext(clientVersion) == JsValue("object", clientVersion, 0, 0)
JsOptions(l, p) == JsValue("object", "", l, p)

\* !v
Falsy(v) == v.t \in {"undefined", "null"} \/ (v.t = "string" /\ v.s = "")
\* typeof v
TypeOf(v) == IF v.t = "null" THEN "object" ELSE v.t

\* A continuation array [apiKey, token, context, options]; isArray = FALSE
\* stands for null and for every other non-array value.
Array(n, a0, a1, a2, a3) ==
  [isArray |-> TRUE, length |-> n, a0 |-> a0, a1 |-> a1, a2 |-> a2, a3 |-> a3]
Null ==
  [isArray |-> FALSE, length |-> 0, a0 |-> JsUndefined, a1 |-> JsUndefined,
   a2 |-> JsUndefined, a3 |-> JsUndefined]

\* A text node as parseText reads it: t is the typeof-class, simpleText the
\* node's simpleText ("" when it has none or an empty one), isArray whether
\* runs is an array, runs the text of each run.
TextNode(t, simpleText, isArray, runs) ==
  [t |-> t, simpleText |-> simpleText, isArray |-> isArray, runs |-> runs]
TextUndefined == TextNode("undefined", "", FALSE, <<>>)
TextNull == TextNode("null", "", FALSE, <<>>)
TextSimple(simpleText) == TextNode("object", simpleText, FALSE, <<>>)
TextRuns(runs) == TextNode("object", "", TRUE, runs)

\* ------------------------------------------------------------------ upstream
Tokens == {"t1", "t2"}
NoToken == ""            \* no continuation marker on the page
ApiKeys == {"", "k1"}    \* between() yields '' when no key can be scraped
ClientVersions == {"v1"}

\* raw item 0 is one the item mapper cannot represent
RawItems == 0 .. 2
NullItem == 0 - 1

RECURSIVE SeqsUpTo(_, _)
SeqsUpTo(S, n) ==
  IF n = 0 THEN {<<>>}
  ELSE LET shorter == SeqsUpTo(S, n - 1)
       IN shorter \cup {Append(s, x) : s \in {q \in shorter : Len(q) = n - 1}, x \in S}

RawPages == SeqsUpTo(RawItems, MaxPageLen)


\* A GET body that carries a results document, as parseBody and parseWrapper
\* decode it: the page's raw items in adapter order, its continuation token,
\* the scraped api key and client version, and whether the filter submenu
\* parseFilters reads is there.
ResultDocs ==
  [rawItems : RawPages, token : Tokens \cup {NoToken}, apiKey : ApiKeys,
   clientVersion : ClientVersions, menu : BOOLEAN]

\* A document without contents, by its alerts key: absent, or an array of
\* alerts. An alert has an alertRenderer or not; the renderer has a type and
\* a text node.
AlertTexts == {TextSimple("m1"), TextRuns(<<"m", "2">>), TextUndefined, TextNull}
Alerts ==
  {[renderer |-> FALSE, type |-> "", text |-> TextUndefined],
   [renderer |-> TRUE, type |-> "INFO", text |-> TextSimple("m1")]}
  \cup [renderer : {TRUE}, type : {"ERROR"}, text : AlertTexts]
NoAlerts == [present |-> FALSE, list |-> <<>>]
AlertsOf(list) == [present |-> TRUE, list |-> list]
ErrorDocs == {NoAlerts} \cup {AlertsOf(list) : list \in SeqsUpTo(Alerts, MaxAlerts)}

\* A POST response: the shape of its onResponseReceivedCommands envelope,
\* and for a well-formed one the continuation items as parsePage2Wrapper
\* decodes them.
CleanEnds == {"missing", "notArray"}
BrokenEnvelopes == {"emptyArray", "noAction", "noContinuationItems"}
ContinuationPages == [rawItems : RawPages, token : Tokens \cup {NoToken}]

\* ------------------------------------------------------------- lib/utils.js
\* checkArgs, the budget pairing: options.limit / options.pages are
\* Undefined when the caller's object has no such key.
checkArgs(options) ==
  LET obj == [limit |-> IF options.limit = Undefined THEN DEFAULT_OPTIONS_limit
                        ELSE options.limit,
              pages |-> options.pages]
  IN IF ~isNaN(obj.pages) /\ Gt(obj.pages, 0)
       THEN [obj EXCEPT !.limit = Infinity]
     ELSE IF isNaN(obj.limit) \/ Le(obj.limit, 0)
       THEN [limit |-> DEFAULT_OPTIONS_limit, pages |-> Infinity]
     ELSE obj

\* parseBody's context: DEFAULT_CONTEXT with the scraped client version
parseBodyContext(clientVersion) == JsContext(clientVersion)

\* what a call yields: the value it returns, or the error it throws
Returns(value) == [thrown |-> "", value |-> value]
Throws(error) == [thrown |-> error, value |-> ""]

\* runs.map(a => a.text).join('')
RECURSIVE Join(_)
Join(runs) == IF runs = <<>> THEN "" ELSE Head(runs) \o Join(Tail(runs))

\* parseText(txt, def): typeof null is 'object', and null.simpleText throws
parseText(txt, def) ==
  IF TypeOf(txt) # "object" THEN Returns(def)
  ELSE IF txt.t = "null" THEN Throws("TypeError")
  ELSE IF txt.simpleText # "" THEN Returns(txt.simpleText)
  ELSE IF txt.isArray THEN Returns(Join(txt.runs))
  ELSE Returns(def)

\* ------------------------------------------------ strings, char by char
\* A response body is the sequence of its characters.
Quote == "\""
Backslash == "\\"

\* haystack.indexOf(needle): the first place needle starts at, from 0, or -1
indexOf(haystack, needle) ==
  LET at == {i \in 0 .. Len(haystack) - Len(needle) :
               SubSeq(haystack, i + 1, i + Len(needle)) = needle}
  IN IF at = {} THEN 0 - 1 ELSE CHOOSE i \in at : \A j \in at : i <= j

\* haystack.slice(start), haystack.slice(0, end)
slice(haystack, start) == SubSeq(haystack, start + 1, Len(haystack))
sliceTo(haystack, end) == SubSeq(haystack, 1, end)

\* The values JSON.parse builds: a string (its characters), an array (its
\* items), an object (its keys in insertion order and their values).
JsonString(chars) == [t |-> "string", chars |-> chars, keys |-> <<>>, items |-> <<>>]
JsonArray(items) == [t |-> "array", chars |-> <<>>, keys |-> <<>>, items |-> items]
JsonObject(keys, items) == [t |-> "object", chars |-> <<>>, keys |-> keys, items |-> items]

\* obj[key] = value while parsing: a repeated key keeps its place and takes
\* the later value
PutMember(obj, key, value) ==
  IF \E i \in 1 .. Len(obj.keys) : obj.keys[i] = key
    THEN JsonObject(obj.keys,
                    [i \in 1 .. Len(obj.items) |->
                       IF obj.keys[i] = key THEN value ELSE obj.items[i]])
  ELSE JsonObject(Append(obj.keys, key), Append(obj.items, value))

\* JSON.parse, by recursive descent over the grammar of JSON. A step yields
\* the value read and the place after it (from 1), or fails. The texts of
\* the model hold no digit and none of the words true, false, null, so a
\* value is an array, an object or a string; the only white space is the
\* blank; the escapes that can occur are \" and \\.
Read(value, next) == [ok |-> TRUE, value |-> value, next |-> next]
SyntaxError == [ok |-> FALSE, value |-> JsonString(<<>>), next |-> 0]

RECURSIVE SkipBlanks(_, _)
SkipBlanks(text, i) ==
  IF i <= Len(text) /\ text[i] = " " THEN SkipBlanks(text, i + 1) ELSE i

RECURSIVE ParseString(_, _, _)
ParseString(text, i, chars) ==
  IF i > Len(text) THEN SyntaxError
  ELSE IF text[i] = Quote THEN Read(JsonString(chars), i + 1)
  ELSE IF text[i] = Backslash
    THEN IF i + 1 <= Len(text) /\ text[i + 1] \in {Quote, Backslash}
           THEN ParseString(text, i + 2, Append(chars, text[i + 1]))
         ELSE SyntaxError
  ELSE ParseString(text, i + 1, Append(chars, text[i]))

RECURSIVE ParseValue(_, _)
RECURSIVE ParseItems(_, _, _)
RECURSIVE ParseMembers(_, _, _)

\* after '[' or ',': a value, then ',' or ']'
ParseItems(text, i, items) ==
  LET item == ParseValue(text, i)
      j == SkipBlanks(text, item.next)
  IN IF ~item.ok \/ j > Len(text) THEN SyntaxError
     ELSE IF text[j] = "," THEN ParseItems(text, j + 1, Append(items, item.value))
     ELSE IF text[j] = "]" THEN Read(JsonArray(Append(items, item.value)), j + 1)
     ELSE SyntaxError

\* after '{' or ',': a string, ':', a value, then ',' or '}'
ParseMembers(text, i, obj) ==
  LET k == SkipBlanks(text, i)
      key == IF k <= Len(text) /\ text[k] = Quote
               THEN ParseString(text, k + 1, <<>>)
             ELSE SyntaxError
      c == SkipBlanks(text, key.next)
      member == IF key.ok /\ c <= Len(text) /\ text[c] = ":"
                  THEN ParseValue(text, c + 1)
                ELSE SyntaxError
      j == SkipBlanks(text, member.next)
      put == PutMember(obj, key.value.chars, member.value)
  IN IF ~member.ok \/ j > Len(text) THEN SyntaxError
     ELSE IF text[j] = "," THEN ParseMembers(text, j + 1, put)
     ELSE IF text[j] = "}" THEN Read(put, j + 1)
     ELSE SyntaxError

ParseValue(text, i) ==
  LET j == SkipBlanks(text, i)
      k == SkipBlanks(text, j + 1)
  IN IF j > Len(text) THEN SyntaxError
     ELSE IF text[j] = Quote THEN ParseString(text, j + 1, <<>>)
     ELSE IF text[j] = "["
       THEN IF k <= Len(text) /\ text[k] = "]" THEN Read(JsonArray(<<>>), k + 1)
            ELSE ParseItems(text, j + 1, <<>>)
     ELSE IF text[j] = "{"
       THEN IF k <= Len(text) /\ text[k] = "}" THEN Read(JsonObject(<<>>, <<>>), k + 1)
            ELSE ParseMembers(text, j + 1, JsonObject(<<>>, <<>>))
     ELSE SyntaxError

JSONparse(text) ==
  LET read == ParseValue(text, 1)
  IN IF read.ok /\ SkipBlanks(text, read.next) = Len(text) + 1
       THEN Returns(read.value)
     ELSE Throws("SyntaxError")

\* cutAfterJSON's loop from index i on: lines 323-349
UnsupportedRoot == "Can't cut unsupported JSON (need to begin with [ or { )"
UnterminatedStructure == "Can't cut unsupported JSON (no matching closing bracket found)"

RECURSIVE ScanNoEscapes(_, _, _, _, _, _, _)
ScanNoEscapes(mixedJson, open, close, i, isString, isEscaped, counter) ==
  IF i >= Len(mixedJson) THEN Throws(UnterminatedStructure)
  ELSE LET c == mixedJson[i + 1]
           n == IF c = open THEN counter + 1
                ELSE IF c = close THEN counter - 1
                ELSE counter
       IN IF c = Quote
            THEN ScanNoEscapes(mixedJson, open, close, i + 1, ~isString, FALSE, counter)
          ELSE IF isString
            THEN ScanNoEscapes(mixedJson, open, close, i + 1, isString, FALSE, counter)
          ELSE IF n = 0 THEN Returns(SubSeq(mixedJson, 1, i + 1))
          ELSE ScanNoEscapes(mixedJson, open, close, i + 1, isString, FALSE, n)
RECURSIVE Scan(_, _, _, _, _, _, _)
Scan(mixedJson, open, close, i, isString, isEscaped, counter) ==
  IF i >= Len(mixedJson) THEN Throws(UnterminatedStructure)
  ELSE LET c == mixedJson[i + 1]
           escaped == c = Backslash /\ ~isEscaped
           n == IF c = open THEN counter + 1
                ELSE IF c = close THEN counter - 1
                ELSE counter
       IN IF c = Quote /\ ~isEscaped
            THEN Scan(mixedJson, open, close, i + 1, ~isString, isEscaped, counter)
          ELSE IF isString
            THEN Scan(mixedJson, open, close, i + 1, isString, escaped, counter)
          ELSE IF n = 0 THEN Returns(SubSeq(mixedJson, 1, i + 1))
          ELSE Scan(mixedJson, open, close, i + 1, isString, escaped, n)

\* cutAfterJSON(mixedJson): mixedJson[0] picks the pair of brackets
cutAfterJSONTrimmed(mixedJson) ==
  LET trimmed == SubSeq(mixedJson, SkipBlanks(mixedJson, 1), Len(mixedJson))
  IN IF trimmed # <<>> /\ trimmed[1] = "["
       THEN Scan(trimmed, "[", "]", 0, FALSE, FALSE, 0)
     ELSE IF trimmed # <<>> /\ trimmed[1] = "{"
       THEN Scan(trimmed, "{", "}", 0, FALSE, FALSE, 0)
     ELSE Throws(UnsupportedRoot)
cutAfterJSON(mixedJson) ==
  IF mixedJson # <<>> /\ mixedJson[1] = "["
    THEN Scan(mixedJson, "[", "]", 0, FALSE, FALSE, 0)
  ELSE IF mixedJson # <<>> /\ mixedJson[1] = "{"
    THEN Scan(mixedJson, "{", "}", 0, FALSE, FALSE, 0)
  ELSE Throws(UnsupportedRoot)

\* jsonAfter(haystack, left): null when left is not there, or when
\* cutAfterJSON or JSON.parse throws
JsonNull == [isNull |-> TRUE, value |-> JsonString(<<>>)]
JsonOf(value) == [isNull |-> FALSE, value |-> value]
jsonAfter(haystack, left) ==
  LET pos == indexOf(haystack, left)
      cut == cutAfterJSON(slice(haystack, pos + Len(left)))
      parsed == JSONparse(cut.value)
  IN IF pos = 0 - 1 THEN JsonNull
     ELSE IF cut.thrown # "" THEN JsonNull
     ELSE IF parsed.thrown # "" THEN JsonNull
     ELSE JsonOf(parsed.value)

\* between(haystack, left, right): '' when left or right is not there
between(haystack, left, right) ==
  LET start == indexOf(haystack, left)
      rest == slice(haystack, start + Len(left))
      end == indexOf(rest, right)
  IN IF start = 0 - 1 THEN <<>>
     ELSE IF end = 0 - 1 THEN <<>>
     ELSE sliceTo(rest, end)

\* the literals parseBody looks for: 'var ytInitialData = ',
\* 'INNERTUBE_API_KEY":"', 'innertubeApiKey":"',
\* 'INNERTUBE_CONTEXT_CLIENT_VERSION":"', 'innertube_context_client_version":"'
ANCHOR ==
  <<"v", "a", "r", " ", "y", "t", "I", "n", "i", "t", "i", "a", "l", "D",
    "a", "t", "a", " ", "=", " ">>
API_KEY_UPPER ==
  <<"I", "N", "N", "E", "R", "T", "U", "B", "E", "_", "A", "P", "I", "_",
    "K", "E", "Y", "\"", ":", "\"">>
API_KEY_CAMEL ==
  <<"i", "n", "n", "e", "r", "t", "u", "b", "e", "A", "p", "i", "K", "e",
    "y", "\"", ":", "\"">>
CLIENT_VERSION_UPPER ==
  <<"I", "N", "N", "E", "R", "T", "U", "B", "E", "_", "C", "O", "N", "T",
    "E", "X", "T", "_", "C", "L", "I", "E", "N", "T", "_", "V", "E", "R",
    "S", "I", "O", "N", "\"", ":", "\"">>
CLIENT_VERSION_LOWER ==
  <<"i", "n", "n", "e", "r", "t", "u", "b", "e", "_", "c", "o", "n", "t",
    "e", "x", "t", "_", "c", "l", "i", "e", "n", "t", "_", "v", "e", "r",
    "s", "i", "o", "n", "\"", ":", "\"">>

\* a || b on strings
OrElse(a, b) == IF a # <<>> THEN a ELSE b

\* parseBody(body): the try around jsonAfter catches what it throws
parseBodyUncaught(body) ==
  LET pos == indexOf(body, ANCHOR)
      cut == cutAfterJSON(slice(body, pos + Len(ANCHOR)))
      clientVersion == OrElse(between(body, CLIENT_VERSION_UPPER, <<Quote>>),
                              between(body, CLIENT_VERSION_LOWER, <<Quote>>))
  IN IF pos # 0 - 1 /\ cut.thrown # "" THEN Throws(cut.thrown)
     ELSE IF pos # 0 - 1 /\ JSONparse(cut.value).thrown # "" THEN Throws("SyntaxError")
     ELSE Returns([json |-> jsonAfter(body, ANCHOR),
                   apiKey |-> OrElse(between(body, API_KEY_UPPER, <<Quote>>),
                                     between(body, API_KEY_CAMEL, <<Quote>>)),
                   context |-> parseBodyContext(clientVersion)])
parseBody(body) ==
  LET clientVersion == OrElse(between(body, CLIENT_VERSION_UPPER, <<Quote>>),
                              between(body, CLIENT_VERSION_LOWER, <<Quote>>))
  IN Returns([json |-> jsonAfter(body, ANCHOR),
              apiKey |-> OrElse(between(body, API_KEY_UPPER, <<Quote>>),
                                between(body, API_KEY_CAMEL, <<Quote>>)),
              context |-> parseBodyContext(clientVersion)])

\* An entry of a results container, an object of one key: the key, and
\* under it the raw item (richItemRenderer.content, richSectionRenderer
\* .content), the raw items (itemSectionRenderer.contents) or the token
\* (continuationItemRenderer). NoEntry is what find returns for no match.
Entry(key, content, contents, tok) ==
  [key |-> key, content |-> content, contents |-> contents, token |-> tok]
NoEntry(value) == Entry(value, 0, <<>>, NoToken)
Marker(tok) == Entry("continuationItemRenderer", 0, <<>>, tok)

\* contents.find(x => the key of x is key)
find(contents, key) ==
  LET at == {i \in 1 .. Len(contents) : contents[i].key = key}
  IN IF at = {} THEN NoEntry("undefined")
     ELSE contents[CHOOSE i \in at : \A j \in at : i <= j]

\* parseWrapper(primaryContents): shape says which of sectionListRenderer
\* and richGridRenderer primaryContents has
parseWrapperUpToMarker(primaryContents) ==
  LET contents == primaryContents.contents
      section == find(contents, "itemSectionRenderer")
      markers == {i \in 1 .. Len(contents) : contents[i].key = "continuationItemRenderer"}
      items == IF markers = {} THEN contents
               ELSE SubSeq(contents, 1, (CHOOSE i \in markers : \A j \in markers : i <= j) - 1)
  IN IF primaryContents.shape = "sectionListRenderer"
       THEN IF section.key = "undefined" THEN Throws("TypeError")
            ELSE Returns([rawItems |-> section.contents,
                          continuation |-> find(contents, "continuationItemRenderer")])
     ELSE IF primaryContents.shape = "richGridRenderer"
       THEN IF \E i \in 1 .. Len(items) :
                 items[i].key \notin {"richItemRenderer", "richSectionRenderer"}
              THEN Throws("TypeError")
            ELSE Returns([rawItems |-> [i \in 1 .. Len(items) |-> items[i].content],
                          continuation |-> find(contents, "continuationItemRenderer")])
     ELSE Returns([rawItems |-> <<>>, continuation |-> NoEntry("null")])
parseWrapper(primaryContents) ==
  LET contents == primaryContents.contents
      section == find(contents, "itemSectionRenderer")
      items == SelectSeq(contents, LAMBDA x : x.key # "continuationItemRenderer")
  IN IF primaryContents.shape = "sectionListRenderer"
       THEN IF section.key = "undefined" THEN Throws("TypeError")
            ELSE Returns([rawItems |-> section.contents,
                          continuation |-> find(contents, "continuationItemRenderer")])
     ELSE IF primaryContents.shape = "richGridRenderer"
       THEN IF \E i \in 1 .. Len(items) :
                 items[i].key \notin {"richItemRenderer", "richSectionRenderer"}
              THEN Throws("TypeError")
            ELSE Returns([rawItems |-> [i \in 1 .. Len(items) |-> items[i].content],
                          continuation |-> find(contents, "continuationItemRenderer")])
     ELSE Returns([rawItems |-> <<>>, continuation |-> NoEntry("null")])

\* parsePage2Wrapper(continuationItems): the loop over the items, the first
\* n of them done; a later marker replaces an earlier one
RECURSIVE Page2Loop(_, _)
Page2Loop(continuationItems, n) ==
  IF n = 0 THEN [rawItems |-> <<>>, continuation |-> NoEntry("null")]
  ELSE LET done == Page2Loop(continuationItems, n - 1)
           ci == continuationItems[n]
       IN IF ci.key = "itemSectionRenderer"
            THEN [done EXCEPT !.rawItems = done.rawItems \o ci.contents]
          ELSE IF ci.key \in {"richItemRenderer", "richSectionRenderer"}
            THEN [done EXCEPT !.rawItems = Append(done.rawItems, ci.content)]
          ELSE IF ci.key = "continuationItemRenderer"
            THEN [done EXCEPT !.continuation = ci]
          ELSE done
parsePage2Wrapper(continuationItems) ==
  Returns(Page2Loop(continuationItems, Len(continuationItems)))

\* A Map: its keys in insertion order and their values. map.set(key, value)
\* on a key that is there keeps the key's place and replaces its value.
EmptyMap == [keys |-> <<>>, values |-> <<>>]
MapHas(map, key) == \E i \in 1 .. Len(map.keys) : map.keys[i] = key
MapGet(map, key) == map.values[CHOOSE i \in 1 .. Len(map.keys) : map.keys[i] = key]
MapSet(map, key, value) ==
  IF MapHas(map, key)
    THEN [map EXCEPT !.values = [i \in 1 .. Len(map.values) |->
                                   IF map.keys[i] = key THEN value ELSE map.values[i]]]
  ELSE [map EXCEPT !.keys = Append(map.keys, key), !.values = Append(map.values, value)]

\* new URL(url, BASE_URL).toString(): url is given by its origin ("" when
\* it is relative) and by what follows the origin's slash
BASE_URL == "https://www.youtube.com/"
NullUrl == "null"
ResolveUrl(url) ==
  IF url.origin = "" THEN BASE_URL \o url.rest ELSE url.origin \o "/" \o url.rest

\* lines 40-47: the parsed filter. A filter is given by its label (a text
\* node), its navigationEndpoint (present or not, and its url) and its
\* tooltip.
ParsedFilter(filter) ==
  LET isSet == ~filter.navigationEndpoint.present
  IN [name |-> parseText(filter.label, "").value,
      active |-> isSet,
      url |-> IF isSet THEN NullUrl ELSE ResolveUrl(filter.navigationEndpoint),
      description |-> filter.tooltip]

\* lines 36-51, after the first n filters: active is null (<<>>) or the
\* parsed filter set last (<<parsedFilter>>)
RECURSIVE SingleFilterGroupNoActive(_, _)
SingleFilterGroupNoActive(filters, n) ==
  IF n = 0 THEN [keys |-> <<>>, values |-> <<>>, active |-> <<>>]
  ELSE LET parsedFilter == ParsedFilter(filters[n])
       IN MapSet(SingleFilterGroupNoActive(filters, n - 1), parsedFilter.name,
                 parsedFilter)
RECURSIVE SingleFilterGroup(_, _)
SingleFilterGroup(filters, n) ==
  IF n = 0 THEN [keys |-> <<>>, values |-> <<>>, active |-> <<>>]
  ELSE LET before == SingleFilterGroup(filters, n - 1)
           parsedFilter == ParsedFilter(filters[n])
       IN [MapSet(before, parsedFilter.name, parsedFilter) EXCEPT
             !.active = IF parsedFilter.active THEN <<parsedFilter>> ELSE before.active]

\* lines 33-54, after the first n groups
RECURSIVE ParsedGroups(_, _)
ParsedGroups(filterWrapper, n) ==
  IF n = 0 THEN EmptyMap
  ELSE LET filterGroup == filterWrapper[n]
       IN MapSet(ParsedGroups(filterWrapper, n - 1),
                 parseText(filterGroup.title, "Unknown Category").value,
                 SingleFilterGroup(filterGroup.filters, Len(filterGroup.filters)))

\* a label or a title that is null makes parseText throw
TextThrows(filterWrapper) ==
  \E i \in 1 .. Len(filterWrapper) :
    \/ parseText(filterWrapper[i].title, "").thrown # ""
    \/ \E j \in 1 .. Len(filterWrapper[i].filters) :
         parseText(filterWrapper[i].filters[j].label, "").thrown # ""

Catalog(filterWrapper) ==
  IF TextThrows(filterWrapper) THEN Throws("TypeError")
  ELSE Returns(ParsedGroups(filterWrapper, Len(filterWrapper)))

\* parseFilters(json). The document is given by: contents, whether
\* json.contents.twoColumnSearchResultsRenderer.primaryContents is there;
\* wrapper, the renderer primaryContents has; subMenu and submenu, each
\* present or not, with a searchSubMenuRenderer or not, with groups or not;
\* header, the search header: whether the path down to popup is there,
\* whether popup has a searchFilterOptionsDialogRenderer, and its groups.
parseFilters(json) ==
  LET menu == IF json.subMenu.present THEN json.subMenu ELSE json.submenu
  IN IF ~json.contents \/ json.wrapper = "none" THEN Throws("TypeError")
     ELSE IF ~menu.present \/ ~menu.renderer THEN Throws("TypeError")
     ELSE IF menu.hasGroups THEN Catalog(menu.groups)
     ELSE IF ~json.header.popup \/ ~json.header.dialog THEN Throws("TypeError")
     ELSE IF json.header.hasGroups THEN Catalog(json.header.groups)
     ELSE Catalog(<<>>)

\* ---------------------------------------------------------- lib/parseItem.js
parseItem(raw) == IF raw = 0 THEN NullItem ELSE 10 + raw

\* -------------------------------------------------------------- lib/main.js
\* rawItems.map(parseItem).filter(item => item).filter((_, index) => index < limit)
KeepUnlimited(rawItems, limit) ==
  SelectSeq([i \in 1 .. Len(rawItems) |-> parseItem(rawItems[i])],
            LAMBDA item : item # NullItem)
Keep(rawItems, limit) ==
  LET mapped == [i \in 1 .. Len(rawItems) |-> parseItem(rawItems[i])]
      present == SelectSeq(mapped, LAMBDA item : item # NullItem)
      n == Cardinality({i \in 1 .. Len(present) : Lt(i - 1, limit)})
  IN SubSeq(present, 1, n)

\* options.limit -= kept; options.pages -= 1
SpendItemsOnly(options, kept) ==
  [limit |-> Minus(options.limit, kept), pages |-> options.pages]
Spend(options, kept) ==
  [limit |-> Minus(options.limit, kept), pages |-> Minus(options.pages, 1)]

\* token && options.limit === Infinity ? [apiKey, token, context, options] : null
EmitDefaultContext(key, tok, ctx, options) ==
  IF tok # NoToken /\ options.limit = Infinity
    THEN Array(4, JsString(key), JsString(tok), JsContext(""),
               JsOptions(options.limit, options.pages))
  ELSE Null
EmitAlways(key, tok, ctx, options) ==
  IF tok # NoToken
    THEN Array(4, JsString(key), JsString(tok), ctx,
               JsOptions(options.limit, options.pages))
  ELSE Null
Emit(key, tok, ctx, options) ==
  IF tok # NoToken /\ options.limit = Infinity
    THEN Array(4, JsString(key), JsString(tok), ctx,
               JsOptions(options.limit, options.pages))
  ELSE Null

\* !token || options.limit < 1 || options.pages < 1
StopIgnoringPages(tok, options) ==
  tok = NoToken \/ Lt(options.limit, 1)
Stop(tok, options) ==
  tok = NoToken \/ Lt(options.limit, 1) \/ Lt(options.pages, 1)

\* nextPageResults.items.unshift(...parsedItems), over all suspended frames:
\* earlier is what the frames above this one hold, outermost first
SpliceReversed(earlier, parsedItems) == parsedItems \o earlier
Splice(earlier, parsedItems) == earlier \o parsedItems

\* args[3].pages = 1; args[3].limit = Infinity
KeepPages(options) == [options EXCEPT !.limit = Infinity]
ResetBudgets(options) == [options EXCEPT !.pages = 1, !.limit = Infinity]

\* if (retries === 0) throw new Error('Unable to find JSON!')
ExhaustedLate(n) == n < 0
Exhausted(n) == n = 0

\* the checks continueRequest makes before it touches args[3]
ValidateShapeOnly(args) ==
  IF ~args.isArray \/ args.length # 4 THEN "Invalid continuation array"
  ELSE IF Falsy(args.a0) \/ TypeOf(args.a0) # "string" THEN "Invalid apiKey"
  ELSE IF Falsy(args.a1) \/ TypeOf(args.a1) # "string" THEN "Invalid token"
  ELSE IF Falsy(args.a2) \/ TypeOf(args.a2) # "object" THEN "Invalid context"
  ELSE IF Falsy(args.a3) \/ TypeOf(args.a3) # "object" THEN "Invalid options"
  ELSE "ok"
Validate(args) ==
  IF ~args.isArray \/ args.length # 4 THEN "Invalid continuation array"
  ELSE IF Falsy(args.a0) \/ TypeOf(args.a0) # "string" THEN "Invalid apiKey"
  ELSE IF Falsy(args.a1) \/ TypeOf(args.a1) # "string" THEN "Invalid token"
  ELSE IF Falsy(args.a2) \/ TypeOf(args.a2) # "object" THEN "Invalid context"
  ELSE IF Falsy(args.a3) \/ TypeOf(args.a3) # "object" THEN "Invalid options"
  ELSE IF args.a3.limit # NullV /\ ~isNaN(args.a3.limit) /\ isFinite(args.a3.limit)
    THEN "continueRequest only allowed for paged requests"
  ELSE "ok"

\* -------------------------------------------------------------------- state
VARIABLES
  pc,           \* "idle", "get" / "post" (awaiting that response), "done", "failed"
  entry,        \* the entry point running: "search" or "continue"
  userOptions,  \* the options object the caller passed to fetchSearchResults
  retries,      \* fetchSearchResults' retries parameter of the running attempt
  opts,         \* the options object of the chain (checkArgs' result, or args[3])
  apiKey,       \* parsedResponse.apiKey / args[0]
  context,      \* parsedResponse.context / args[2]
  token,        \* the continuation token last extracted and sent (line 84, 134)
  result,       \* the search's result object; at "done" the value returned
  pending,      \* parsedItems of the suspended fetchNextPage frames, outermost first
  err,          \* the message of the Error thrown, at "failed"
  args,         \* the array passed to continueRequest, as it was passed
  gets,         \* GET requests issued by the running call
  documents,    \* history: GET responses of the running call that held a document
  posts,        \* POST requests issued by the running call (saturates at MaxPosts)
  limit0,       \* history: the item limit the running attempt started with
  pages0,       \* history: the page budget the running attempt started with
  expect,       \* history: the pages' kept items in retrieval order, by TakeMapped
  lastToken,    \* history: the token the last page fetched carried
  lastEnvelope, \* history: the envelope shape of the last POST response
  resumed,      \* history: args is the descriptor the previous call returned
  alerts,       \* history: the alerts payload of a document without contents
  first,        \* Resume only: the upstream's first-page document, once served
  nextPage,     \* Resume only: the upstream's page behind each token, once served
  log,          \* Resume only: the values the earlier calls returned
  input,        \* the argument a helper of lib/utils.js is applied to
  fn,           \* the helper applied to input, "" before
  output,       \* what the helper returned or threw
  rival         \* the calls in flight next to the running one, by number

vars ==
  <<pc, entry, userOptions, retries, opts, apiKey, context, token, result,
    pending, err, args, gets, documents, posts, limit0, pages0, expect, lastToken,
    lastEnvelope, resumed, alerts, first, nextPage, log, input, fn, output,
    rival>>

upstreamVars == <<first, nextPage, log>>
utilVars == <<input, fn, output, rival>>
searchVars ==
  <<pc, entry, userOptions, retries, opts, apiKey, context, token, result,
    pending, err, args, gets, documents, posts, limit0, pages0, expect, lastToken,
    lastEnvelope, resumed, alerts, upstreamVars, rival>>

RetriesDefault == 3

EmptyResult == [items |-> <<>>, continuation |-> Null]
NoOptions == [limit |-> Undefined, pages |-> Undefined]
Unserved == [served |-> FALSE, envelope |-> "", rawItems |-> <<>>, token |-> NoToken,
             apiKey |-> "", clientVersion |-> "", menu |-> FALSE]

\* What a caller passes as options: an explicit limit with no pages key or
\* with a page count of 0 or below, or a positive page count with no limit
\* key, or both. Every finite limit is at most MaxLimit and every page
\* count at most MaxPages, so that a chain's items stay bounded: calls that
\* normalise to the default limit of 100 items, and pages: Infinity, are
\* left to the properties of checkArgs.
UserOptions ==
  {o \in [limit : 1 .. MaxLimit, pages : {Undefined, 0 - 1, 0}]
         \cup [limit : {Undefined}, pages : 1 .. MaxPages]
         \cup [limit : {1}, pages : {1}] :
     checkArgs(o).limit # DEFAULT_OPTIONS_limit}

\* What a caller can pass to continueRequest besides a descriptor it got back
CallerArrays ==
  {Null}
  \cup {Array(3, JsString("k1"), JsString("t1"), JsContext("v1"), JsUndefined)}
  \cup {Array(4, k, t, c, o) :
          k \in {JsUndefined, JsString(""), JsNumber, JsString("k1")},
          t \in {JsUndefined, JsString(""), JsNumber, JsString("t1")},
          c \in {JsUndefined, JsNull, JsString("ctx"), JsContext("v1")},
          o \in {JsUndefined, JsNull, JsNumber}
                \cup {JsOptions(l, p) : l \in {NullV, Undefined, NaN, 2, Infinity},
                                        p \in {Undefined, 3}}}

\* the spec's reading of one page: the mapped, representable items, first
\* ones first, as many as the budget allows
RECURSIVE TakeMapped(_, _)
TakeMapped(raw, budget) ==
  IF raw = <<>> \/ budget <= 0 THEN <<>>
  ELSE IF parseItem(Head(raw)) = NullItem THEN TakeMapped(Tail(raw), budget)
  ELSE <<parseItem(Head(raw))>> \o TakeMapped(Tail(raw), budget - 1)

Bump(n) == IF n < MaxPosts THEN n + 1 ELSE n

\* A further call: the entry point it came in by, where it stands, the
\* retries left, its own options object (a search's), its key and context,
\* the items it holds, the descriptor it returned, the POSTs it issued and,
\* as history, the pages a continueRequest was answered.
Calls == {1, 2}
NoRival ==
  [entry |-> "", pc |-> "idle", retries |-> RetriesDefault, opts |-> NoOptions,
   apiKey |-> "", context |-> JsUndefined, items |-> <<>>,
   continuation |-> Null, posts |-> 0, served |-> <<>>]

\* no call made yet
AtRest ==
  /\ rival = [c \in Calls |-> NoRival]
  /\ pc = "idle"
  /\ entry = "search"
  /\ userOptions = NoOptions
  /\ retries = RetriesDefault
  /\ opts = NoOptions
  /\ apiKey = ""
  /\ context = JsUndefined
  /\ token = NoToken
  /\ result = EmptyResult
  /\ pending = <<>>
  /\ err = ""
  /\ args = Null
  /\ gets = 0
  /\ documents = 0
  /\ posts = 0
  /\ limit0 = Undefined
  /\ pages0 = Undefined
  /\ expect = <<>>
  /\ lastToken = NoToken
  /\ lastEnvelope = ""
  /\ resumed = FALSE
  /\ alerts = NoAlerts
  /\ first = Unserved
  /\ nextPage = [t \in Tokens |-> Unserved]
  /\ log = <<>>

Init ==
  /\ AtRest
  /\ input = <<>>
  /\ fn = ""
  /\ output = <<>>

\* ---------------------------------------------------- fetchSearchResults
\* throw: the call fails; nothing of the result is surfaced
Throw(message) ==
  /\ pc' = "failed"
  /\ err' = message
  /\ result' = EmptyResult
  /\ pending' = <<>>

\* fetchSearchResults(searchString, options, n) up to its first await
Attempt(options, n, issued) ==
  /\ retries' = n
  /\ limit0' = checkArgs(options).limit
  /\ pages0' = checkArgs(options).pages
  /\ expect' = <<>>
  /\ token' = NoToken
  /\ apiKey' = ""
  /\ context' = JsUndefined
  /\ lastToken' = NoToken
  /\ lastEnvelope' = ""
  /\ alerts' = NoAlerts
  /\ IF Exhausted(n)
       THEN /\ Throw("Unable to find JSON!")
            /\ gets' = issued
            /\ UNCHANGED opts
       ELSE /\ opts' = checkArgs(options)
            /\ pc' = "get"
            /\ gets' = issued + 1
            /\ result' = EmptyResult
            /\ pending' = <<>>
            /\ err' = ""

SearchWith(options) ==
  /\ pc \in {"idle", "done", "failed"}
  /\ entry' = "search"
  /\ userOptions' = options
  /\ args' = Null
  /\ resumed' = FALSE
  /\ posts' = 0
  /\ documents' = 0
  /\ Attempt(options, RetriesDefault, 0)

\* the caller calls fetchSearchResults(searchString, options)
CallSearch ==
  /\ \E options \in UserOptions : SearchWith(options)
  /\ UNCHANGED <<upstreamVars, utilVars>>

callVars == <<entry, userOptions, args, resumed>>

\* the GET's body holds no document: retry the whole first-page fetch
GetNoDocument ==
  /\ pc = "get"
  /\ Attempt(userOptions, retries - 1, gets)
  /\ UNCHANGED <<callVars, posts, documents, upstreamVars, utilVars>>

\* the GET's document has no contents: lines 37-45 throw the API error of
\* the first alert whose alertRenderer has type ERROR; with no alerts key,
\* or no such alert, the code goes on to line 69 and reads
\* json.contents.twoColumnSearchResultsRenderer of undefined
ApiError(payload) ==
  LET list == payload.list
      errors == {i \in 1 .. Len(list) : list[i].renderer /\ list[i].type = "ERROR"}
      error == list[CHOOSE i \in errors : \A j \in errors : i <= j]
      text == parseText(error.text, "* no message *")
  IN IF ~payload.present \/ errors = {} THEN "TypeError"
     ELSE IF text.thrown # "" THEN text.thrown
     ELSE "API-Error: " \o text.value

ErrorDocument(payload) ==
  /\ pc = "get"
  /\ Throw(ApiError(payload))
  /\ alerts' = payload
  /\ documents' = documents + 1
  /\ UNCHANGED <<callVars, retries, opts, apiKey, context, token, gets, posts,
                 limit0, pages0, expect, lastToken, lastEnvelope>>

GetErrorDocument ==
  /\ \E payload \in ErrorDocs : ErrorDocument(payload)
  /\ UNCHANGED <<upstreamVars, utilVars>>

\* the outermost fetchNextPage returned {items, continuation}: every
\* suspended frame has unshifted its parsedItems; at the search entry the
\* items are pushed after the first page's, at continueRequest the value is
\* returned as it is
Return(items, continuation) ==
  /\ pc' = "done"
  /\ err' = ""
  /\ pending' = <<>>
  /\ result' = IF entry = "search"
                 THEN [items |-> result.items \o Splice(pending, items),
                       continuation |-> continuation]
               ELSE [items |-> Splice(pending, items), continuation |-> continuation]

\* the GET's document holds results: lines 47-101
FirstPage(doc) ==
  LET items == Keep(doc.rawItems, opts.limit)
      spent == Spend(opts, Len(items))
      ctx == parseBodyContext(doc.clientVersion)
  IN /\ pc = "get"
     /\ opts' = spent
     /\ apiKey' = doc.apiKey
     /\ context' = ctx
     /\ token' = doc.token
     /\ lastToken' = doc.token
     /\ expect' = TakeMapped(doc.rawItems, limit0)
     /\ documents' = documents + 1
     /\ IF ~doc.menu
          THEN \* parseFilters reads searchSubMenuRenderer of undefined
               /\ Throw("TypeError")
               /\ UNCHANGED posts
        ELSE IF Stop(doc.token, spent)
          THEN /\ pc' = "done"
               /\ err' = ""
               /\ pending' = <<>>
               /\ result' = [items |-> items,
                             continuation |-> Emit(doc.apiKey, doc.token, ctx, spent)]
               /\ UNCHANGED posts
        ELSE /\ pc' = "post"
             /\ err' = ""
             /\ pending' = <<>>
             /\ result' = [items |-> items,
                           continuation |-> Emit(doc.apiKey, doc.token, ctx, spent)]
             /\ posts' = Bump(posts)
     /\ UNCHANGED <<callVars, retries, gets, limit0, pages0, lastEnvelope, alerts>>

GetFirstPage ==
  /\ \E doc \in ResultDocs : FirstPage(doc)
  /\ UNCHANGED <<upstreamVars, utilVars>>

\* ---------------------------------------------------------- fetchNextPage
chainVars ==
  <<callVars, retries, apiKey, context, gets, documents, limit0, pages0, alerts>>

\* onResponseReceivedCommands is no array: return {continuation: null, items: []}
CleanEnd(envelope) ==
  /\ pc = "post"
  /\ lastEnvelope' = envelope
  /\ Return(<<>>, Null)
  /\ lastToken' = NoToken
  /\ UNCHANGED <<chainVars, opts, token, posts, expect>>

PostCleanEnd ==
  /\ \E envelope \in CleanEnds : CleanEnd(envelope)
  /\ UNCHANGED <<upstreamVars, utilVars>>

\* onResponseReceivedCommands is an array, but [0] is undefined, or has no
\* appendContinuationItemsAction, or that has no continuationItems: line 124
\* reads a property of undefined, or parsePage2Wrapper iterates undefined
BrokenEnvelope(envelope) ==
  /\ pc = "post"
  /\ lastEnvelope' = envelope
  /\ Throw("TypeError")
  /\ lastToken' = NoToken
  /\ UNCHANGED <<chainVars, opts, token, posts, expect>>

PostBrokenEnvelope ==
  /\ \E envelope \in BrokenEnvelopes : BrokenEnvelope(envelope)
  /\ UNCHANGED <<upstreamVars, utilVars>>

\* a well-formed continuation page: lines 123-147
NextPage(page) ==
  LET parsedItems == Keep(page.rawItems, opts.limit)
      spent == Spend(opts, Len(parsedItems))
  IN /\ pc = "post"
     /\ opts' = spent
     /\ token' = IF Stop(page.token, spent) THEN token ELSE page.token
     /\ lastToken' = page.token
     /\ lastEnvelope' = "page"
     /\ expect' = expect \o TakeMapped(page.rawItems, Num(limit0) - Len(expect))
     /\ IF Stop(page.token, spent)
          THEN /\ Return(parsedItems, Emit(apiKey, page.token, context, spent))
               /\ UNCHANGED posts
        ELSE /\ pc' = "post"
             /\ pending' = Splice(pending, parsedItems)
             /\ posts' = Bump(posts)
             /\ UNCHANGED <<result, err>>
     /\ UNCHANGED chainVars

PostPage ==
  /\ \E page \in ContinuationPages : NextPage(page)
  /\ UNCHANGED <<upstreamVars, utilVars>>

\* --------------------------------------------------------- continueRequest
ContinueWith(array, emitted) ==
  /\ pc \in {"idle", "done", "failed"}
  /\ entry' = "continue"
  /\ args' = array
  /\ resumed' = emitted
  /\ userOptions' = NoOptions
  /\ retries' = RetriesDefault
  /\ gets' = 0
  /\ documents' = 0
  /\ limit0' = Infinity
  /\ pages0' = 1
  /\ expect' = <<>>
  /\ lastToken' = NoToken
  /\ lastEnvelope' = ""
  /\ alerts' = NoAlerts
  /\ IF Validate(array) # "ok"
       THEN /\ Throw(Validate(array))
            /\ opts' = IF array.isArray /\ array.a3.t = "object"
                         THEN [limit |-> array.a3.limit, pages |-> array.a3.pages]
                       ELSE NoOptions
            /\ apiKey' = ""
            /\ context' = JsUndefined
            /\ token' = NoToken
            /\ posts' = 0
       ELSE /\ opts' = ResetBudgets([limit |-> array.a3.limit, pages |-> array.a3.pages])
            /\ apiKey' = array.a0.s
            /\ context' = array.a2
            /\ token' = array.a1.s
            /\ pc' = "post"
            /\ posts' = 1
            /\ err' = ""
            /\ result' = EmptyResult
            /\ pending' = <<>>

Returned == pc = "done"
SearchReturned == entry = "search" /\ pc = "done"
SearchReturnedWithDescriptor == SearchReturned /\ result.continuation # Null

\* the caller resumes with the descriptor the call before returned
CallContinue ==
  /\ Returned
  /\ result.continuation # Null
  /\ ContinueWith(result.continuation, TRUE)
  /\ UNCHANGED <<upstreamVars, utilVars>>

\* the caller passes an array of its own making
CallContinueWith ==
  /\ pc = "idle"
  /\ \E array \in CallerArrays : ContinueWith(array, FALSE)
  /\ UNCHANGED <<upstreamVars, utilVars>>

Next ==
  \/ CallSearch
  \/ GetNoDocument
  \/ GetErrorDocument
  \/ GetFirstPage
  \/ PostCleanEnd
  \/ PostBrokenEnvelope
  \/ PostPage
  \/ CallContinue
  \/ CallContinueWith

Spec == Init /\ [][Next]_vars

\* ------------------------------------------------- resuming, side by side
\* One caller against a deterministic upstream: the first-page document and
\* the response behind each token are fixed the first time they are served
\* (a GET may still come back without a document). The caller searches with
\* {pages: 1}, resumes the descriptor it got, then searches again with
\* {pages: 2}; log keeps what the first two calls returned.
Outcome ==
  [status |-> pc, items |-> result.items, continuation |-> result.continuation]

PagesOnly(n) == [limit |-> Undefined, pages |-> n]

ResumeSearchOnePage ==
  /\ pc = "idle"
  /\ SearchWith(PagesOnly(1))
  /\ UNCHANGED <<upstreamVars, utilVars>>

ResumeContinue ==
  /\ SearchReturnedWithDescriptor
  /\ Len(log) = 0
  /\ ContinueWith(result.continuation, TRUE)
  /\ log' = <<Outcome>>
  /\ UNCHANGED <<first, nextPage, utilVars>>

ResumeSearchTwoPages ==
  /\ entry = "continue"
  /\ pc \in {"done", "failed"}
  /\ Len(log) = 1
  /\ SearchWith(PagesOnly(2))
  /\ log' = Append(log, Outcome)
  /\ UNCHANGED <<first, nextPage, utilVars>>

ServedFirstPage ==
  /\ \E doc \in ResultDocs :
       /\ first.served =>
            /\ doc.rawItems = first.rawItems
            /\ doc.token = first.token
            /\ doc.apiKey = first.apiKey
            /\ doc.clientVersion = first.clientVersion
            /\ doc.menu = first.menu
       /\ FirstPage(doc)
       /\ first' = [served |-> TRUE, envelope |-> "", rawItems |-> doc.rawItems,
                    token |-> doc.token, apiKey |-> doc.apiKey,
                    clientVersion |-> doc.clientVersion, menu |-> doc.menu]
  /\ UNCHANGED <<nextPage, log, utilVars>>

Serve(envelope, page) ==
  /\ nextPage[token].served =>
       /\ nextPage[token].envelope = envelope
       /\ nextPage[token].rawItems = page.rawItems
       /\ nextPage[token].token = page.token
  /\ nextPage' = [nextPage EXCEPT ![token] =
                    [served |-> TRUE, envelope |-> envelope, rawItems |-> page.rawItems,
                     token |-> page.token, apiKey |-> "", clientVersion |-> "",
                     menu |-> FALSE]]
  /\ UNCHANGED <<first, log, utilVars>>

NoPage == [rawItems |-> <<>>, token |-> NoToken]

ServedCleanEnd ==
  \E envelope \in CleanEnds : CleanEnd(envelope) /\ Serve(envelope, NoPage)

ServedBrokenEnvelope ==
  \E envelope \in BrokenEnvelopes : BrokenEnvelope(envelope) /\ Serve(envelope, NoPage)

ServedPage ==
  \E page \in ContinuationPages : NextPage(page) /\ Serve("page", page)

NextResume ==
  \/ ResumeSearchOnePage
  \/ ResumeContinue
  \/ ResumeSearchTwoPages
  \/ GetNoDocument
  \/ ServedFirstPage
  \/ ServedCleanEnd
  \/ ServedBrokenEnvelope
  \/ ServedPage

SpecResume == Init /\ [][NextResume]_vars

\* Every request is answered: a GET or POST in flight gets its response.
Answered ==
  /\ WF_vars(GetNoDocument \/ GetErrorDocument \/ GetFirstPage)
  /\ WF_vars(PostCleanEnd \/ PostBrokenEnvelope \/ PostPage)

FairSpec == Spec /\ Answered

\* ------------------------------------------------------ more calls in flight
\* what a step of a further call leaves alone: all but the options object
\* of the running call and the further calls' state
rivalFrame ==
  <<pc, entry, userOptions, retries, apiKey, context, token, result, pending,
    err, args, gets, documents, posts, limit0, pages0, expect, lastToken,
    lastEnvelope, resumed, alerts, upstreamVars, input, fn, output>>

\* Whether a further call works on the options object of the running one:
\* a continueRequest on the same descriptor does (args[3] is that object), a
\* search does not (checkArgs copies the caller's object, part_000 line 150)
SharesAlways(e) == TRUE
Shares(e) == e = "continue"

\* call c's budgets, and the step that writes them back
Budgets(c) == IF Shares(rival[c].entry) THEN opts ELSE rival[c].opts
WriteBudgets(c, spent, next) ==
  /\ opts' = (IF Shares(rival[c].entry) THEN spent ELSE opts)
  /\ rival' = [rival EXCEPT
                 ![c] = IF Shares(rival[c].entry) THEN next
                        ELSE [next EXCEPT !.opts = spent]]

\* continueRequest is called once more with the descriptor of the running
\* call (or the one it returned, which holds the same options object): the
\* checks pass, limit being Infinity, and the budgets are reset on that object
RivalContinue ==
  /\ entry = "continue"
  /\ pc \in {"post", "done"}
  /\ rival[1].pc \in {"idle", "done", "failed"}
  /\ opts' = ResetBudgets(opts)
  /\ rival' = [rival EXCEPT
                 ![1] = [NoRival EXCEPT !.entry = "continue", !.pc = "post",
                                        !.posts = 1, !.apiKey = apiKey,
                                        !.context = context]]
  /\ UNCHANGED rivalFrame

\* the caller starts two searches with one options object, each up to its
\* first await
CallTwoSearches ==
  /\ pc = "idle"
  /\ \A c \in Calls : rival[c].pc = "idle"
  /\ \E options \in UserOptions :
       /\ userOptions' = options
       /\ rival' = [c \in Calls |->
                     [NoRival EXCEPT !.entry = "search", !.pc = "get",
                                     !.opts = checkArgs(options)]]
  /\ UNCHANGED <<pc, entry, retries, opts, apiKey, context, token, result,
                 pending, err, args, gets, documents, posts, limit0, pages0,
                 expect, lastToken, lastEnvelope, resumed, alerts, upstreamVars,
                 input, fn, output>>

\* a search's GET is answered without a document: the retry
RivalGetNoDocument ==
  /\ \E c \in Calls :
       /\ rival[c].entry = "search"
       /\ rival[c].pc = "get"
       /\ rival' = [rival EXCEPT
                      ![c] = IF Exhausted(rival[c].retries - 1)
                               THEN [@ EXCEPT !.pc = "failed", !.retries = @ - 1]
                             ELSE [@ EXCEPT !.retries = @ - 1,
                                            !.opts = checkArgs(userOptions)]]
  /\ UNCHANGED <<opts, rivalFrame>>

\* The documents and pages the two searches are served: the key is there,
\* and the raw items are all of one kind.
TwoSearchDocs ==
  {doc \in ResultDocs :
     /\ doc.apiKey = "k1"
     /\ doc.token \in {"t1", NoToken}
     /\ \A i \in 1 .. Len(doc.rawItems) : doc.rawItems[i] = 1}
TwoSearchPages ==
  {page \in ContinuationPages :
     /\ page.token \in {"t1", NoToken}
     /\ \A i \in 1 .. Len(page.rawItems) : page.rawItems[i] = 1}

\* ... with a document that holds results: lines 47-101
RivalFirstPage(c, doc) ==
  LET items == Keep(doc.rawItems, Budgets(c).limit)
      spent == Spend(Budgets(c), Len(items))
      ctx == parseBodyContext(doc.clientVersion)
  IN /\ rival[c].entry = "search"
     /\ rival[c].pc = "get"
     /\ WriteBudgets(c, spent,
          IF ~doc.menu THEN [rival[c] EXCEPT !.pc = "failed"]
          ELSE [rival[c] EXCEPT
                  !.pc = IF Stop(doc.token, spent) THEN "done" ELSE "post",
                  !.posts = IF Stop(doc.token, spent) THEN @ ELSE Bump(@),
                  !.apiKey = doc.apiKey,
                  !.context = ctx,
                  !.items = items,
                  !.continuation = Emit(doc.apiKey, doc.token, ctx, spent)])

RivalGetFirstPage ==
  /\ \E c \in Calls, doc \in TwoSearchDocs : RivalFirstPage(c, doc)
  /\ UNCHANGED rivalFrame

\* call c's POST is answered by a page: fetchNextPage, lines 123-147
RivalNextPage(c, page) ==
  LET parsedItems == Keep(page.rawItems, Budgets(c).limit)
      spent == Spend(Budgets(c), Len(parsedItems))
      answered == IF rival[c].entry = "continue" THEN Append(rival[c].served, page)
                  ELSE rival[c].served
  IN /\ rival[c].pc = "post"
     /\ rival[c].entry = "search" => page \in TwoSearchPages
     /\ WriteBudgets(c, spent,
          IF Stop(page.token, spent)
            THEN [rival[c] EXCEPT
                    !.pc = "done",
                    !.items = @ \o parsedItems,
                    !.continuation =
                      Emit(rival[c].apiKey, page.token, rival[c].context, spent),
                    !.served = answered]
          ELSE [rival[c] EXCEPT
                  !.items = @ \o parsedItems,
                  !.posts = Bump(@),
                  !.served = answered])

RivalPostPage ==
  /\ \E c \in Calls, page \in ContinuationPages : RivalNextPage(c, page)
  /\ UNCHANGED rivalFrame

\* ... by a response without an array of commands
RivalPostCleanEnd ==
  /\ \E c \in Calls :
       /\ rival[c].pc = "post"
       /\ rival' = [rival EXCEPT ![c] = [@ EXCEPT !.pc = "done",
                                                  !.continuation = Null]]
  /\ UNCHANGED <<opts, rivalFrame>>

\* ... by an array of commands without continuation items
RivalPostBrokenEnvelope ==
  /\ \E c \in Calls :
       /\ rival[c].pc = "post"
       /\ rival' = [rival EXCEPT ![c] = [@ EXCEPT !.pc = "failed", !.items = <<>>]]
  /\ UNCHANGED <<opts, rivalFrame>>

\* continueRequest calls that share their options object
SpecShared ==
  Init /\ [][CallContinueWith \/ CallContinue \/ PostCleanEnd
              \/ PostBrokenEnvelope \/ PostPage \/ RivalContinue
              \/ RivalPostPage \/ RivalPostCleanEnd \/ RivalPostBrokenEnvelope]_vars

\* two searches the caller started with one options object
SpecTwoSearches ==
  Init /\ [][CallTwoSearches \/ RivalGetNoDocument \/ RivalGetFirstPage
              \/ RivalPostPage \/ RivalPostCleanEnd \/ RivalPostBrokenEnvelope]_vars

\* ------------------------------------------- the JSON extractor, on its own
\* the characters of a string value: quotes, backslashes, brackets of both
\* pairs, and a letter
StringValues ==
  {JsonString(chars) :
     chars \in {<<"a">>, <<Quote>>, <<Backslash>>, <<"]">>, <<"[">>, <<"}">>,
                <<"{">>, <<"a", Quote, "]", Backslash>>}}

\* the i-th key of an object
KeyAt(i) == [j \in 1 .. i |-> "}"]

\* the JSON values of n strings, arrays and objects in all, and the
\* non-empty lists of values of n in all
RECURSIVE JsonValues(_)
RECURSIVE JsonLists(_)
JsonValues(n) ==
  IF n = 1 THEN StringValues \cup {JsonArray(<<>>), JsonObject(<<>>, <<>>)}
  ELSE {JsonArray(items) : items \in JsonLists(n - 1)}
       \cup {JsonObject([i \in 1 .. Len(items) |-> KeyAt(i)], items) :
               items \in JsonLists(n - 1)}
JsonLists(n) ==
  {<<v>> : v \in JsonValues(n)}
  \cup UNION {{<<v>> \o rest : v \in JsonValues(k), rest \in JsonLists(n - k)} :
               k \in 1 .. n - 1}

\* the text of a value, as JSON writes it: no blanks, '"' and '\' escaped
RECURSIVE EscapedChars(_)
EscapedChars(chars) ==
  IF chars = <<>> THEN <<>>
  ELSE (IF Head(chars) \in {Quote, Backslash} THEN <<Backslash, Head(chars)>>
        ELSE <<Head(chars)>>) \o EscapedChars(Tail(chars))
StringText(chars) == <<Quote>> \o EscapedChars(chars) \o <<Quote>>

RECURSIVE JsonText(_)
RECURSIVE MembersText(_, _, _)
MembersText(keys, items, i) ==
  IF i > Len(items) THEN <<>>
  ELSE (IF i > 1 THEN <<",">> ELSE <<>>)
       \o (IF keys = <<>> THEN <<>> ELSE StringText(keys[i]) \o <<":">>)
       \o JsonText(items[i]) \o MembersText(keys, items, i + 1)
JsonText(value) ==
  IF value.t = "string" THEN StringText(value.chars)
  ELSE IF value.t = "array" THEN <<"[">> \o MembersText(<<>>, value.items, 1) \o <<"]">>
  ELSE <<"{">> \o MembersText(value.keys, value.items, 1) \o <<"}">>

\* An array or object right after the literal, in a body that holds the
\* literal nowhere before: text before the literal, text after the value.
Roots == UNION {{v \in JsonValues(n) : v.t # "string"} : n \in 1 .. MaxNodes}
Framed ==
  [before : {<<>>, <<"<", "a", "[", Quote, "{", ">">>},
   value : Roots,
   after : {<<>>, <<";">>, <<"]">>, <<"}">>, <<Quote, "]">>, <<Backslash, "}", "]">>}]
AfterAnchor(framed) == JsonText(framed.value) \o framed.after
Haystack(framed) == framed.before \o ANCHOR \o AfterAnchor(framed)

InitExtract ==
  /\ AtRest
  /\ input \in Framed
  /\ fn = ""
  /\ output = <<>>

\* jsonAfter(body, 'var ytInitialData = ')
JsonAfterFramed ==
  /\ fn = ""
  /\ fn' = "jsonAfter"
  /\ output' = jsonAfter(Haystack(input), ANCHOR)
  /\ UNCHANGED <<searchVars, input>>

\* cutAfterJSON(haystack), haystack being the body sliced after the literal
CutAfterFramed ==
  /\ fn = ""
  /\ fn' = "cutAfterJSON"
  /\ output' = cutAfterJSON(AfterAnchor(input))
  /\ UNCHANGED <<searchVars, input>>

SpecExtract == InitExtract /\ [][JsonAfterFramed \/ CutAfterFramed]_vars

\* cutAfterJSON on any text
Chars == {"[", "]", "{", "}", Quote, Backslash, "a", " "}
Texts == SeqsUpTo(Chars, MaxTextLen)

InitCut ==
  /\ AtRest
  /\ input \in Texts
  /\ fn = ""
  /\ output = <<>>

CutAfterJSON ==
  /\ fn = ""
  /\ fn' = "cutAfterJSON"
  /\ output' = cutAfterJSON(input)
  /\ UNCHANGED <<searchVars, input>>

SpecCut == InitCut /\ [][CutAfterJSON]_vars

\* ---------------------------------------------------- parseBody, on its own
\* A response body: the api key and the client version as the page's
\* scripts carry them (under one spelling, the other, both, with an empty
\* value, cut off before the closing quote, or not at all), then the
\* literal followed by any short text, or no literal.
KeyParts ==
  {<<>>,
   API_KEY_UPPER \o <<"k", "1", Quote>>,
   API_KEY_CAMEL \o <<"k", "2", Quote>>,
   API_KEY_UPPER \o <<"k", "1", Quote>> \o API_KEY_CAMEL \o <<"k", "2", Quote>>,
   API_KEY_UPPER \o <<Quote>> \o API_KEY_CAMEL \o <<"k", "2", Quote>>,
   API_KEY_UPPER \o <<"k", "1">>}
VersionParts ==
  {<<>>,
   CLIENT_VERSION_UPPER \o <<"v", "1", Quote>>,
   CLIENT_VERSION_LOWER \o <<"v", "2", Quote>>}
DocParts ==
  {<<>>} \cup {ANCHOR \o text : text \in SeqsUpTo({"[", "]", Quote, "a"}, MaxTextLen)}
Bodies == {k \o v \o d : k \in KeyParts, v \in VersionParts, d \in DocParts}

InitParseBody ==
  /\ AtRest
  /\ input \in Bodies
  /\ fn = ""
  /\ output = <<>>

ParseBody ==
  /\ fn = ""
  /\ fn' = "parseBody"
  /\ output' = parseBody(input)
  /\ UNCHANGED <<searchVars, input>>

SpecParseBody == InitParseBody /\ [][ParseBody]_vars

\* ------------------------------------------------- parseWrapper, on its own
\* The first page's results container: a grid of rich items, rich sections,
\* continuation markers and entries of another key; a section list of item
\* sections, markers and other sections; or neither.
GridEntries ==
  {Entry(key, raw, <<>>, NoToken) :
     key \in {"richItemRenderer", "richSectionRenderer"}, raw \in RawItems}
  \cup {Marker(tok) : tok \in Tokens}
  \cup {Entry("other", 0, <<>>, NoToken)}
SectionEntries ==
  {Entry("itemSectionRenderer", 0, contents, NoToken) :
     contents \in {<<>>, <<1>>, <<1, 2>>}}
  \cup {Marker("t1"), Entry("other", 0, <<>>, NoToken)}
PrimaryContents ==
  [shape : {"richGridRenderer"}, contents : SeqsUpTo(GridEntries, MaxEntries)]
  \cup [shape : {"sectionListRenderer"}, contents : SeqsUpTo(SectionEntries, MaxEntries)]
  \cup [shape : {"neither"}, contents : {<<>>}]

InitParseWrapper ==
  /\ AtRest
  /\ input \in PrimaryContents
  /\ fn = ""
  /\ output = <<>>

ParseWrapper ==
  /\ fn = ""
  /\ fn' = "parseWrapper"
  /\ output' = parseWrapper(input)
  /\ UNCHANGED <<searchVars, input>>

\* the entries of the container, handed over as a continuation page's items
ParsePage2Wrapper ==
  /\ fn = ""
  /\ fn' = "parsePage2Wrapper"
  /\ output' = parsePage2Wrapper(input.contents)
  /\ UNCHANGED <<searchVars, input>>

SpecParseWrapper == InitParseWrapper /\ [][ParseWrapper \/ ParsePage2Wrapper]_vars

\* ------------------------------------------------- parseFilters, on its own
\* Filters: a label that is text, runs or missing; no navigation target, a
\* relative one or an absolute one.
Filters ==
  [label : {TextSimple("Video"), TextRuns(<<"Chan", "nel">>), TextUndefined},
   navigationEndpoint :
     {[present |-> FALSE, origin |-> "", rest |-> ""],
      [present |-> TRUE, origin |-> "", rest |-> "results?sp=A"],
      [present |-> TRUE, origin |-> "https://www.youtube.com", rest |-> "results?sp=B"]},
   tooltip : {"tip"}]
FilterGroups ==
  [title : {TextSimple("Type"), TextUndefined}, filters : SeqsUpTo(Filters, MaxFilters)]
\* no group, one group, or one group followed by one of two fixed ones
GroupLists ==
  {<<>>} \cup {<<g>> : g \in FilterGroups}
  \cup {<<g, h>> :
          g \in FilterGroups,
          h \in {[title |-> TextSimple("Sort by"), filters |-> <<>>],
                 [title |-> TextSimple("Type"),
                  filters |-> <<[label |-> TextSimple("Video"),
                                 navigationEndpoint |->
                                   [present |-> FALSE, origin |-> "", rest |-> ""],
                                 tooltip |-> "tip"]>>]}}

\* subMenu / submenu, and the search header
Menu(present, renderer, hasGroups, groups) ==
  [present |-> present, renderer |-> renderer, hasGroups |-> hasGroups,
   groups |-> groups]
Header(popup, dialog, hasGroups, groups) ==
  [popup |-> popup, dialog |-> dialog, hasGroups |-> hasGroups, groups |-> groups]

\* A decoded document as parseFilters reads it: without groups anywhere, or
\* with groups under subMenu, under submenu or in the header's popup.
FilterDocs ==
  [contents : BOOLEAN, wrapper : {"sectionListRenderer", "richGridRenderer", "none"},
   subMenu : {Menu(FALSE, FALSE, FALSE, <<>>), Menu(TRUE, FALSE, FALSE, <<>>),
              Menu(TRUE, TRUE, FALSE, <<>>)},
   submenu : {Menu(FALSE, FALSE, FALSE, <<>>), Menu(TRUE, FALSE, FALSE, <<>>),
              Menu(TRUE, TRUE, FALSE, <<>>)},
   header : {Header(FALSE, FALSE, FALSE, <<>>), Header(TRUE, FALSE, FALSE, <<>>),
             Header(TRUE, TRUE, FALSE, <<>>)}]
  \cup [contents : {TRUE}, wrapper : {"sectionListRenderer"},
        subMenu : {Menu(TRUE, TRUE, TRUE, groups) : groups \in GroupLists},
        submenu : {Menu(FALSE, FALSE, FALSE, <<>>)},
        header : {Header(FALSE, FALSE, FALSE, <<>>)}]
  \cup [contents : {TRUE}, wrapper : {"richGridRenderer"},
        subMenu : {Menu(FALSE, FALSE, FALSE, <<>>)},
        submenu : {Menu(TRUE, TRUE, TRUE, groups) : groups \in GroupLists},
        header : {Header(FALSE, FALSE, FALSE, <<>>)}]
  \cup [contents : {TRUE}, wrapper : {"sectionListRenderer"},
        subMenu : {Menu(TRUE, TRUE, FALSE, <<>>)},
        submenu : {Menu(FALSE, FALSE, FALSE, <<>>)},
        header : {Header(TRUE, TRUE, TRUE, groups) : groups \in GroupLists}]

InitParseFilters ==
  /\ AtRest
  /\ input \in FilterDocs
  /\ fn = ""
  /\ output = <<>>

ParseFilters ==
  /\ fn = ""
  /\ fn' = "parseFilters"
  /\ output' = parseFilters(input)
  /\ UNCHANGED <<searchVars, input>>

SpecParseFilters == InitParseFilters /\ [][ParseFilters]_vars

\* ------------------------------------------- fetchSearchResults.getFilters
\* getFilters keeps no budgets, key, token or result: what it leaves alone
searchOnlyVars ==
  <<userOptions, retries, opts, apiKey, context, token, result, pending, args,
    posts, limit0, pages0, expect, lastToken, lastEnvelope, resumed, alerts,
    upstreamVars, rival>>

\* the caller calls getFilters(searchString, options): the first GET
CallGetFilters ==
  /\ pc \in {"idle", "done", "failed"}
  /\ entry' = "getFilters"
  /\ pc' = "get"
  /\ gets' = 1
  /\ documents' = 0
  /\ err' = ""
  /\ input' = <<>>
  /\ fn' = ""
  /\ output' = <<>>
  /\ UNCHANGED searchOnlyVars

\* the body decodes to no document: getFilters calls itself, which issues
\* the GET again; the recursion carries no counter (gets is counted up to
\* MaxGets and stays there)
FiltersNoDocument ==
  /\ pc = "get"
  /\ entry = "getFilters"
  /\ gets' = (IF gets < MaxGets THEN gets + 1 ELSE gets)
  /\ UNCHANGED <<pc, entry, documents, err, utilVars, searchOnlyVars>>

\* the body decodes to a document: the outcome is parseFilters of it
FiltersDocument ==
  /\ pc = "get"
  /\ entry = "getFilters"
  /\ \E json \in FilterDocs :
       /\ input' = json
       /\ output' = parseFilters(json)
       /\ err' = parseFilters(json).thrown
       /\ pc' = (IF parseFilters(json).thrown = "" THEN "done" ELSE "failed")
  /\ fn' = "parseFilters"
  /\ documents' = 1
  /\ UNCHANGED <<entry, gets, searchOnlyVars>>

SpecFilters == Init /\ [][CallGetFilters \/ FiltersNoDocument \/ FiltersDocument]_vars

\* ------------------------------------------------------------------- claims
InvalidDescriptor ==
  {"Invalid continuation array", "Invalid apiKey", "Invalid token",
   "Invalid context", "Invalid options"}
BudgetMismatch == "continueRequest only allowed for paged requests"

\* C1: a search whose normalised item limit is a finite K returns at most K
\* items, whatever the pages the upstream served.
C1_AtMostLimitItems ==
  SearchReturned /\ isFinite(limit0) => Len(result.items) <= limit0

\* a search with limit 2 that took two follow-up pages to fill it
C1_Witness ==
  /\ SearchReturned
  /\ limit0 = 2
  /\ Len(result.items) = 2
  /\ posts = 2

\* C2: a returned continuation is non-null only when the remaining item
\* limit is Infinity, and a search with a finite item limit returns
\* continuation = null after any number of pages.
C2_ContinuationOnlyUnbounded ==
  Returned =>
    /\ result.continuation # Null =>
         opts.limit = Infinity /\ result.continuation.a3.limit = Infinity
    /\ entry = "search" /\ isFinite(limit0) => result.continuation = Null

\* a search with a finite limit whose last page, a follow-up page, carried
\* a token and which still returned no continuation
C2_Witness ==
  /\ SearchReturned
  /\ isFinite(limit0)
  /\ posts >= 1
  /\ lastToken # NoToken
  /\ result.continuation = Null

\* C3: the returned items are the fetched pages' kept items in page order,
\* each page's raw items mapped, nulls dropped, truncated to the budget left
\* when the page is processed; a lone first page without a continuation
\* marker returns continuation = null.
C3_ItemsInPageOrder ==
  Returned =>
    /\ result.items = expect
    /\ entry = "search" /\ posts = 0 /\ lastToken = NoToken =>
         result.continuation = Null

\* three pages of one kept item each, not all the same item
C3_Witness ==
  /\ SearchReturned
  /\ posts = 2
  /\ Len(result.items) = 3
  /\ result.items[2] # result.items[3]
  /\ result.items[1] # result.items[2]

\* C5: with an unbounded item limit and a page budget P >= 1 the returned
\* continuation is non-null exactly when the last page fetched carried a
\* token; the descriptor holds that token, the chain's api key and context;
\* and with P = 1 no POST is issued.
C5_DescriptorOfLastPage ==
  SearchReturned /\ limit0 = Infinity =>
    /\ result.continuation # Null <=> lastToken # NoToken
    /\ result.continuation # Null =>
         /\ result.continuation.isArray /\ result.continuation.length = 4
         /\ result.continuation.a0 = JsString(apiKey)
         /\ result.continuation.a1 = JsString(lastToken)
         /\ result.continuation.a2 = context
         /\ result.continuation.a3 = JsOptions(opts.limit, opts.pages)
    /\ pages0 = 1 => posts = 0 /\ documents = 1

\* page budget 2: the first page carried t1, the second page t2, and the
\* descriptor returned holds t2
C5_Witness ==
  /\ SearchReturned
  /\ limit0 = Infinity
  /\ pages0 = 2
  /\ posts = 1
  /\ token = "t1"
  /\ lastToken = "t2"
  /\ result.continuation # Null

\* C6: a descriptor a call returned is accepted by a later continueRequest:
\* resuming it never fails with InvalidDescriptor nor with BudgetMismatch.
C6_EmittedDescriptorResumes ==
  entry = "continue" /\ resumed /\ pc = "failed" =>
    err \notin InvalidDescriptor \cup {BudgetMismatch}

\* C7: continueRequest rejects a descriptor that is no 4-element array, or
\* whose api key or token is no non-empty string, or whose context or
\* options is no object, with InvalidDescriptor, and a well-shaped one whose
\* options.limit is a finite number with BudgetMismatch; a rejected call
\* issues no POST and leaves the options object as it was.
BadShape(a) ==
  \/ ~a.isArray
  \/ a.length # 4
  \/ a.a0.t # "string" \/ a.a0.s = ""
  \/ a.a1.t # "string" \/ a.a1.s = ""
  \/ a.a2.t # "object"
  \/ a.a3.t # "object"
FiniteLimit(a) == a.a3.limit \notin {NullV, Undefined, NaN, Infinity}
LeftAlone ==
  /\ posts = 0
  /\ args.isArray /\ args.a3.t = "object" =>
       opts = [limit |-> args.a3.limit, pages |-> args.a3.pages]
C7_BadDescriptorsRejected ==
  entry = "continue" =>
    /\ BadShape(args) =>
         pc = "failed" /\ err \in InvalidDescriptor /\ LeftAlone
    /\ ~BadShape(args) /\ FiniteLimit(args) =>
         pc = "failed" /\ err = BudgetMismatch /\ LeftAlone
    /\ pc = "failed" /\ err \in InvalidDescriptor \cup {BudgetMismatch} =>
         LeftAlone

\* a well-shaped descriptor with options {limit: 2, pages: 3}, rejected
C7_Witness ==
  /\ entry = "continue"
  /\ pc = "failed"
  /\ err = BudgetMismatch
  /\ args.a3 = JsOptions(2, 3)
  /\ opts = [limit |-> 2, pages |-> 3]

\* C8: a search issues at most 3 first-page GETs; it fails with 'Unable to
\* find JSON!' exactly when 3 responses in a row held no document, and once
\* a response holds a document there is no further GET and no such failure.
C8_ThreeGetsAtMost ==
  entry = "search" /\ pc # "idle" =>
    /\ gets <= 3
    /\ pc = "failed" /\ err = "Unable to find JSON!" => gets = 3 /\ documents = 0
    /\ gets = 3 /\ documents = 0 /\ pc # "get" =>
         pc = "failed" /\ err = "Unable to find JSON!"
    /\ documents >= 1 =>
         documents = 1 /\ pc # "get" /\ err # "Unable to find JSON!"

\* three responses without a document: the search has failed
C8_Witness ==
  /\ entry = "search"
  /\ pc = "failed"
  /\ err = "Unable to find JSON!"
  /\ gets = 3
  /\ documents = 0

\* C9: a search with a finite item limit terminates, whatever the upstream
\* answers, as long as every request is answered.
C9_FiniteLimitTerminates ==
  (entry = "search" /\ pc \in {"get", "post"} /\ isFinite(limit0))
    ~> (pc \in {"done", "failed"})

\* C10: a continuation response whose command envelope is absent or
\* malformed ends the stream cleanly: the call returns the earlier pages'
\* items and no continuation.
C10_MalformedEnvelopeEndsCleanly ==
  lastEnvelope \in CleanEnds \cup BrokenEnvelopes =>
    pc = "done" /\ result.continuation = Null /\ result.items = expect

\* C4: against one deterministic upstream, search with {pages: 1} followed
\* by continueRequest on the descriptor it returned yields the items that
\* search with {pages: 2} returns after its first page's: the two results'
\* items, one after the other, are the items of the {pages: 2} result.
C4_ResumeEqualsNaturalContinuation ==
  SearchReturned /\ Len(log) = 2 =>
    /\ log[2].status = "done"
    /\ log[1].items \o log[2].items = result.items

\* C11: a first-page document that carries alerts and no contents makes the
\* search fail with 'API-Error: ' followed by the text extracted from an
\* alert of the payload, or by '* no message *' when none can be extracted;
\* it fails with no other error and returns nothing, whatever the alerts'
\* types.
Extractable(text) ==
  text.t = "object" /\ (text.simpleText # "" \/ text.isArray)
ApiErrorsOf(list) ==
  {"API-Error: * no message *"}
  \cup {"API-Error: " \o parseText(list[i].text, "").value :
          i \in {j \in 1 .. Len(list) : list[j].renderer /\ Extractable(list[j].text)}}
C11_AlertsFailWithApiError ==
  alerts.present =>
    pc = "failed" /\ err \in ApiErrorsOf(alerts.list) /\ result = EmptyResult

\* C12: for a well-formed JSON array or object V right after the literal,
\* with text before the literal and text after V, the extraction recovers
\* exactly V: cutAfterJSON returns V's text, from its opening bracket to the
\* matching closing one, and jsonAfter returns V, also when V holds strings
\* with escaped quotes, escaped backslashes, brackets, and nested brackets
\* of the root's type.
C12_ExtractsExactlyTheValue ==
  /\ fn = "cutAfterJSON" =>
       output.thrown = "" /\ output.value = JsonText(input.value)
  /\ fn = "jsonAfter" =>
       ~output.isNull /\ output.value = input.value

\* [["a\"]\\"],[]] followed by \}] : a string with an escaped quote, a
\* bracket and a final escaped backslash, in an array in an array
C12_Witness ==
  /\ fn = "cutAfterJSON"
  /\ input.value =
       JsonArray(<<JsonArray(<<JsonString(<<"a", Quote, "]", Backslash>>)>>)>>)
  /\ input.after = <<Backslash, "}", "]">>
  /\ input.before # <<>>
  /\ output.value =
       <<"[", "[", Quote, "a", Backslash, Quote, "]", Backslash, Backslash, Quote,
         "]", "]">>

\* C13: cutAfterJSON on a text whose first character is neither '[' nor
\* '{' (the empty text and a text that starts with a blank included) throws
\* the unsupported-root error, and on a text that starts with '[' or '{'
\* and whose bracket counter never comes back to zero it throws the
\* no-closing-bracket error; it returns no span in either case.
\* The scanner's state after a text, read as the spec words it: an
\* unescaped quote toggles string mode, a backslash escapes the next
\* character only, brackets of the root's pair count outside strings.
RECURSIVE Track(_, _, _)
Track(text, open, close) ==
  IF text = <<>> THEN [isString |-> FALSE, isEscaped |-> FALSE, depth |-> 0]
  ELSE LET was == Track(SubSeq(text, 1, Len(text) - 1), open, close)
           c == text[Len(text)]
       IN IF c = Quote /\ ~was.isEscaped
            THEN [was EXCEPT !.isString = ~was.isString]
          ELSE [isString |-> was.isString,
                isEscaped |-> c = Backslash /\ ~was.isEscaped,
                depth |-> IF was.isString THEN was.depth
                          ELSE IF c = open THEN was.depth + 1
                          ELSE IF c = close THEN was.depth - 1
                          ELSE was.depth]
NeverCloses(text, open, close) ==
  /\ text # <<>>
  /\ text[1] = open
  /\ \A n \in 1 .. Len(text) : Track(SubSeq(text, 1, n), open, close).depth # 0
C13_BadTextsThrow ==
  fn = "cutAfterJSON" =>
    /\ input = <<>> \/ input[1] \notin {"[", "{"} => output.thrown = UnsupportedRoot
    /\ NeverCloses(input, "[", "]") \/ NeverCloses(input, "{", "}") =>
         output.thrown = UnterminatedStructure

\* ["]" : the only closing bracket is inside a string
C13_Witness ==
  /\ fn = "cutAfterJSON"
  /\ input = <<"[", Quote, "]", Quote>>
  /\ output.thrown = UnterminatedStructure

\* C14: parseBody throws for no response text: json is null when the
\* literal is absent, when the text after it has an unsupported root, is
\* unterminated or is no JSON; the api key and the client version are the
\* empty string when the body holds neither of their literals.
C14_ParseBodyNeverThrows ==
  fn = "parseBody" =>
    LET pos == indexOf(input, ANCHOR)
        text == slice(input, pos + Len(ANCHOR))
        cut == cutAfterJSON(text)
    IN /\ output.thrown = ""
       /\ pos = 0 - 1 => output.value.json.isNull
       /\ pos # 0 - 1 /\ (text = <<>> \/ text[1] \notin {"[", "{"}) =>
            output.value.json.isNull
       /\ pos # 0 - 1 /\ NeverCloses(text, "[", "]") => output.value.json.isNull
       /\ pos # 0 - 1 /\ cut.thrown = "" /\ JSONparse(cut.value).thrown # "" =>
            output.value.json.isNull
       /\ indexOf(input, API_KEY_UPPER) = 0 - 1 /\ indexOf(input, API_KEY_CAMEL) = 0 - 1 =>
            output.value.apiKey = <<>>
       /\ indexOf(input, CLIENT_VERSION_UPPER) = 0 - 1
            /\ indexOf(input, CLIENT_VERSION_LOWER) = 0 - 1 =>
            output.value.context = parseBodyContext(<<>>)

\* a body without key and version whose literal is followed by [a] : the
\* brackets match, the text is no JSON
C14_Witness ==
  /\ fn = "parseBody"
  /\ input = ANCHOR \o <<"[", "a", "]">>
  /\ output.thrown = ""
  /\ output.value.json.isNull
  /\ output.value.apiKey = <<>>

\* C15: for a grid of N entries, each an item or a continuation marker, M
\* of them markers, M at most 1, parseWrapper yields the N - M items in the
\* order of the entries, and a continuation exactly when M = 1, wherever
\* the marker stands. (Without a marker the continuation is what find
\* returns, undefined.)
MarkersAt(contents) ==
  {i \in 1 .. Len(contents) : contents[i].key = "continuationItemRenderer"}
ItemsAndMarkers(contents) ==
  \A i \in 1 .. Len(contents) :
    contents[i].key \in
      {"richItemRenderer", "richSectionRenderer", "continuationItemRenderer"}
C15_GridItemsAndMarker ==
  /\ fn = "parseWrapper"
  /\ input.shape = "richGridRenderer"
  /\ ItemsAndMarkers(input.contents)
  /\ Cardinality(MarkersAt(input.contents)) <= 1
  => LET N == Len(input.contents)
         at == MarkersAt(input.contents)
         M == Cardinality(at)
     IN /\ output.thrown = ""
        /\ Len(output.value.rawItems) = N - M
        /\ \A i \in 1 .. N - M :
             output.value.rawItems[i] =
               input.contents[IF \E m \in at : m <= i THEN i + 1 ELSE i].content
        /\ output.value.continuation.key = "continuationItemRenderer" <=> M = 1
        /\ \A m \in at : output.value.continuation = input.contents[m]

\* a rich item, the marker, a rich section: two items and the marker's token
C15_Witness ==
  /\ fn = "parseWrapper"
  /\ input.shape = "richGridRenderer"
  /\ input.contents =
       <<Entry("richItemRenderer", 1, <<>>, NoToken), Marker("t2"),
         Entry("richSectionRenderer", 2, <<>>, NoToken)>>
  /\ output.value.rawItems = <<1, 2>>
  /\ output.value.continuation.token = "t2"

\* C16: getFilters never fails for want of a document: a response without a
\* document leads to another GET, however many have been issued; getFilters
\* settles only on a response that carries a document, on the first such
\* response, and then it returns that document's filter catalog.
C16_GetFiltersReturnsFirstCatalog ==
  entry = "getFilters" =>
    /\ err # "Unable to find JSON!"
    /\ pc \in {"done", "failed"} <=> documents = 1
    /\ documents = 1 =>
         /\ pc = "done"
         /\ output.thrown = ""
         /\ output = parseFilters(input)

\* C17: parseFilters raises no error on a document that has a results
\* container; when neither subMenu / submenu nor the header's popup holds
\* groups, those sub-trees being absent included, it returns an empty
\* catalog.
NoGroups(json) ==
  ~json.subMenu.hasGroups /\ ~json.submenu.hasGroups /\ ~json.header.hasGroups
C17_ParseFiltersNeverRaises ==
  fn = "parseFilters" /\ input.contents /\ input.wrapper # "none" =>
    /\ output.thrown = ""
    /\ NoGroups(input) => output.value = EmptyMap

\* C18: in the catalog a filter is active exactly when it has no navigation
\* target, its url being null then and the target resolved against the
\* base URL otherwise; every filter of a group is retrievable from the
\* group by its display name; the group's active marker is null when none
\* of its filters is active and otherwise is an active filter that the
\* group returns under its name.
GroupsRead(json) ==
  IF json.subMenu.hasGroups THEN json.subMenu.groups
  ELSE IF json.submenu.hasGroups THEN json.submenu.groups
  ELSE json.header.groups
TitleOf(filterGroup) ==
  IF Extractable(filterGroup.title) THEN parseText(filterGroup.title, "").value
  ELSE "Unknown Category"
NameOf(filter) ==
  IF Extractable(filter.label) THEN parseText(filter.label, "").value ELSE ""
\* what the claim says of the catalog's group built from filterGroup
AsClaimed(filterGroup, group) ==
  LET filters == filterGroup.filters
      hasTarget(j) == filters[j].navigationEndpoint.present
  IN /\ \A j \in 1 .. Len(filters) :
          /\ MapHas(group, NameOf(filters[j]))
          /\ MapGet(group, NameOf(filters[j])) =
               [name |-> NameOf(filters[j]),
                active |-> ~hasTarget(j),
                url |-> IF hasTarget(j) THEN ResolveUrl(filters[j].navigationEndpoint)
                        ELSE NullUrl,
                description |-> filters[j].tooltip]
     /\ (\A j \in 1 .. Len(filters) : hasTarget(j)) => group.active = <<>>
     /\ (\E j \in 1 .. Len(filters) : ~hasTarget(j)) =>
          /\ Len(group.active) = 1
          /\ group.active[1].active
          /\ MapHas(group, group.active[1].name)
          /\ MapGet(group, group.active[1].name) = group.active[1]
\* the catalog's group of this title is built from the last group titled so
LastOfTitle(groups, i) ==
  \A k \in i + 1 .. Len(groups) : TitleOf(groups[k]) # TitleOf(groups[i])
C18_CatalogOfFilters ==
  fn = "parseFilters" /\ output.thrown = "" =>
    \A i \in 1 .. Len(GroupsRead(input)) :
      LastOfTitle(GroupsRead(input), i) =>
        AsClaimed(GroupsRead(input)[i],
                  MapGet(output.value, TitleOf(GroupsRead(input)[i])))

\* C18, amended: the same, for a group whose filters have pairwise
\* distinct display names (a filter replaces an earlier one of its name).
DistinctNames(filterGroup) ==
  \A a, b \in 1 .. Len(filterGroup.filters) :
    a # b => NameOf(filterGroup.filters[a]) # NameOf(filterGroup.filters[b])
C18_CatalogOfDistinctNames ==
  fn = "parseFilters" /\ output.thrown = "" =>
    \A i \in 1 .. Len(GroupsRead(input)) :
      LastOfTitle(GroupsRead(input), i) /\ DistinctNames(GroupsRead(input)[i]) =>
        AsClaimed(GroupsRead(input)[i],
                  MapGet(output.value, TitleOf(GroupsRead(input)[i])))

\* the group Type with Video, active, and Channel, which links to
\* results?sp=A: both are in the catalog's group and active is Video
C18_Witness ==
  /\ fn = "parseFilters"
  /\ output.thrown = ""
  /\ Len(input.submenu.groups) = 1
  /\ MapHas(output.value, "Type")
  /\ MapGet(output.value, "Type").keys = <<"Video", "Channel">>
  /\ MapGet(output.value, "Type").active =
       <<[name |-> "Video", active |-> TRUE, url |-> NullUrl, description |-> "tip"]>>
  /\ MapGet(MapGet(output.value, "Type"), "Channel").url =
       "https://www.youtube.com/results?sp=A"

\* C19: checkArgs pairs the budgets: a positive page count makes the item
\* limit Infinity; without a positive page count (no pages key, 0, a negative
\* number) the item limit is finite and the page budget stops nothing, so a
\* search that returned used up its item limit or ran out of tokens.
C19_BudgetsPaired ==
  LET paged == ~isNaN(userOptions.pages) /\ Gt(userOptions.pages, 0)
  IN entry = "search" /\ pc # "idle" =>
       /\ limit0 = checkArgs(userOptions).limit
       /\ paged => limit0 = Infinity
       /\ ~paged =>
            /\ isFinite(limit0)
            /\ SearchReturned => Lt(opts.limit, 1) \/ lastToken = NoToken

\* the pages a search has processed so far: its document and the POSTs it
\* issued, less the POST still awaited and less a POST answered without a page
PagesProcessed ==
  documents + posts - (IF pc = "post" THEN 1 ELSE 0)
                    - (IF lastEnvelope \in {"", "page"} THEN 0 ELSE 1)

\* C20: a search awaits a follow-up POST only when the page it has just
\* processed carried a token, at least 1 item of the budget is left and the
\* page budget left is not below 1; after every page the item budget is the
\* normalised one less the items kept and the page budget the normalised one
\* less the pages processed; with a page count P of 1 or more the search
\* makes at most P requests that carry a document or a page.
C20_StopsWhenExhausted ==
  entry = "search" /\ pc \in {"post", "done"} =>
    /\ pc = "post" =>
         lastToken # NoToken /\ Le(1, opts.limit) /\ ~Lt(opts.pages, 1)
    /\ opts.limit = Minus(limit0, Len(result.items) + Len(pending))
    /\ opts.pages = Minus(pages0, PagesProcessed)
    /\ pages0 \in 1 .. MaxPages => documents + posts <= pages0

\* a search with pages: 2 returned after its second page although that page
\* carried a token
C20_Witness ==
  /\ SearchReturned
  /\ pages0 = 2
  /\ documents = 1
  /\ posts = 1
  /\ lastEnvelope = "page"
  /\ lastToken # NoToken
  /\ opts.pages = 0

\* the key and the context a chain works with: those decoded from the
\* search's first page, or those of the descriptor continueRequest was given
ChainCredentialsKept ==
  /\ pc = "get" /\ pc' \in {"post", "done"} =>
       \E doc \in ResultDocs :
         apiKey' = doc.apiKey /\ context' = parseBodyContext(doc.clientVersion)
  /\ pc = "post" => apiKey' = apiKey /\ context' = context
  /\ entry' = "continue" /\ pc' = "post" =>
       apiKey' = args'.a0.s /\ context' = args'.a2
  /\ pc' = "done" /\ result'.continuation # Null =>
       /\ result'.continuation.a0 = JsString(apiKey')
       /\ result'.continuation.a2 = context'

\* C21: within one chain the api key and the context never change: a search
\* takes them from its first page and a resumed chain from the descriptor it
\* was given; no answer to a POST changes them, so every further POST is
\* made with them, and every descriptor emitted carries them.
C21_CredentialsCarriedUnchanged == [][ChainCredentialsKept]_vars

\* a search returned a descriptor after a POST of its own
C21_Witness ==
  /\ SearchReturnedWithDescriptor
  /\ posts = 1
  /\ lastEnvelope = "page"
  /\ apiKey = "k1"
  /\ result.continuation.a0 = JsString("k1")
  /\ result.continuation.a2 = JsContext("v1")

\* the entries of a recognised shape
Recognised(contents) == SelectSeq(contents, LAMBDA x : x.key # "other")
HasItemSection(contents) ==
  \E i \in 1 .. Len(contents) : contents[i].key = "itemSectionRenderer"

\* C22: neither adapter raises an error on an unrecognised shape, and each
\* returns what it returns when the unrecognised entries are left out:
\* parsePage2Wrapper for a continuation item of another key, parseWrapper
\* for a grid entry of another key, for a section list without an item
\* section (no items then) and for a container that is neither (no items).
C22_UnknownShapesSkipped ==
  /\ fn = "parsePage2Wrapper" =>
       /\ output.thrown = ""
       /\ output = parsePage2Wrapper(Recognised(input.contents))
  /\ fn = "parseWrapper" =>
       /\ output.thrown = ""
       /\ input.shape = "richGridRenderer" =>
            output = parseWrapper([input EXCEPT !.contents = Recognised(@)])
       /\ input.shape = "sectionListRenderer" /\ ~HasItemSection(input.contents) =>
            output.value.rawItems = <<>>
       /\ input.shape = "neither" => output.value.rawItems = <<>>

\* C23: a continueRequest call on a valid descriptor issues one POST and no
\* second one, whatever page count the descriptor's options held and however
\* its steps interleave with those of another continueRequest call on the
\* same options object; when it returns after a page it returns the items
\* kept of that page, with a descriptor exactly when the page had a token.
C23_OnePagePerContinue ==
  /\ entry = "continue" /\ Validate(args) = "ok" =>
       /\ pc \in {"post", "done", "failed"} => posts = 1
       /\ pc = "done" /\ lastEnvelope = "page" =>
            /\ result.items = expect
            /\ result.continuation # Null <=> lastToken # NoToken
  /\ rival[1].entry = "continue" =>
       /\ rival[1].posts = 1
       /\ Len(rival[1].served) <= 1
       /\ rival[1].pc = "done" /\ rival[1].served # <<>> =>
            /\ rival[1].items = TakeMapped(rival[1].served[1].rawItems, Infinity)
            /\ rival[1].continuation # Null <=> rival[1].served[1].token # NoToken

\* both calls were in flight at once on a descriptor that came with a page
\* count of 3: each set the page budget to 1 before either was answered, each
\* took 1 off it, and each returned the items of its one page
C23_Witness ==
  /\ entry = "continue"
  /\ args.a3.pages = 3
  /\ pc = "done"
  /\ rival[1].pc = "done"
  /\ opts.pages = 0 - 1
  /\ posts = 1
  /\ rival[1].posts = 1
  /\ result.items # <<>>
  /\ rival[1].items # <<>>
  /\ rival[1].items # result.items

\* a search's own accounting: from the budgets the caller's object
\* normalises to, the item budget is down by the items the search holds and
\* the page budget by the pages it processed (the document and the POSTs
\* answered, the last of which may have come without a page); it holds no more items than
\* the limit and made no more page requests than the page count
OwnBudgets(c) ==
  LET call == rival[c]
      full == checkArgs(userOptions)
      processed == 1 + call.posts - (IF call.pc = "post" THEN 1 ELSE 0)
  IN /\ call.pc = "get" => call.opts = full
     /\ call.pc \in {"post", "done"} =>
          /\ call.opts.limit = Minus(full.limit, Len(call.items))
          /\ \/ call.opts.pages = Minus(full.pages, processed)
             \/ /\ call.pc = "done"
                /\ call.posts > 0
                /\ call.continuation = Null
                /\ call.opts.pages = Minus(full.pages, processed - 1)
          /\ isFinite(full.limit) => Len(call.items) <= full.limit
          /\ isFinite(full.pages) /\ Gt(full.pages, 0) => 1 + call.posts <= full.pages

\* C24: a search leaves the caller's options object as it was given: the
\* budgets are taken off the copy checkArgs makes, a first-page retry starts
\* from the full budgets again, and of two searches started with one options
\* object each keeps to its own budgets however their steps interleave.
C24_CallerOptionsUntouched ==
  /\ [][\E c \in Calls : rival[c].pc # "idle" => userOptions' = userOptions]_vars
  /\ [](\A c \in Calls : rival[c].entry = "search" => OwnBudgets(c))

\* both searches were in flight with {limit: 2}: one has retried and
\* returned its 2 items, the other holds 1 item and awaits its second page
C24_Witness ==
  /\ userOptions = [limit |-> 2, pages |-> Undefined]
  /\ rival[1].entry = "search"
  /\ rival[1].pc = "done"
  /\ rival[1].retries = RetriesDefault - 1
  /\ Len(rival[1].items) = 2
  /\ rival[1].opts.limit = 0
  /\ rival[2].pc = "post"
  /\ Len(rival[2].items) = 1
  /\ rival[2].opts.limit = 1

====
